---------------------------- MODULE Spec2Model ----------------------------
(***************************************************************************)
(* py_nb_to_src.converter: convert_ipynb, convert_rmd, convert_directory   *)
(* and _escape_r_string.                                                   *)
(*                                                                         *)
(* A string is a sequence of characters.  A file name is a string; the     *)
(* extension words (ipynb, Rmd, py, r) and the fixed pieces of the         *)
(* knitr command are kept as one element each, since no operation of the   *)
(* program looks inside them.  A path is a sequence of names, read from    *)
(* the filesystem root, which is also the working directory.               *)
(***************************************************************************)
EXTENDS Naturals, Sequences, FiniteSets

VARIABLES
    fs,             \* names of the entries of the directory /d (regular files)
    jupyterOnPath,  \* the executable "jupyter" is on the execution path
    rOnPath,        \* the executable "R" is on the execution path
    pc,             \* "idle", "ipynb_loop", "rmd_loop", "done", "escape"
    call,           \* the public operation called and its arguments
    pending,        \* paths the running glob loop has not yet yielded
    results,        \* the dict of convert_directory, a set of <<key, value>>
    outcome,        \* how the public operation ended
    subprocessRuns, \* every subprocess.run made, in order
    converterCalls, \* every convert_ipynb / convert_rmd call made, in order
    escIn,          \* argument of _escape_r_string (string-level check)
    escOut          \* its result

vars == <<fs, jupyterOnPath, rOnPath, pc, call, pending, results, outcome,
          subprocessRuns, converterCalls, escIn, escOut>>

-----------------------------------------------------------------------------
(* Bounds *)

\* Largest number of entries /d holds before the call.
MaxFiles == 3

\* Longest string given to _escape_r_string in the string-level check.
MaxLen == 4

-----------------------------------------------------------------------------
(* Characters and names *)

DOT == "."
SEP == "/"
BS == "\\"
DQ == "\""

DName == <<"d">>
FName == <<"f">>
D == <<DName>>

\* Names /d may hold before the call.
NameUniverse ==
    { <<"a", DOT, "ipynb">>, <<"b", DOT, "ipynb">>, <<DOT, "ipynb">>,
      <<"a", DOT, "Rmd">>, <<"b", BS, DQ, DOT, "Rmd">>,
      <<"a", DOT, "py">>, <<"a">> }

\* Names never present before the call (inputs that do not exist).
MissingNames == { <<"m", DOT, "ipynb">>, <<"m", DOT, "Rmd">> }

Last(s) == s[Len(s)]
Front(s) == SubSeq(s, 1, Len(s) - 1)

-----------------------------------------------------------------------------
(* pathlib *)

\* str.rfind(".") on a name, 1-based; 0 when there is no dot.
RFindDot(n) ==
    LET I == {i \in 1..Len(n) : n[i] = DOT}
    IN  IF I = {} THEN 0 ELSE CHOOSE i \in I : \A j \in I : j <= i

\* PurePath.suffix: the last dot starts the suffix unless it is the first or
\* the last character of the name.
Suffix(n) ==
    LET i == RFindDot(n)
    IN  IF 1 < i /\ i < Len(n) THEN SubSeq(n, i, Len(n)) ELSE <<>>

\* PurePath.stem
Stem(n) ==
    LET i == RFindDot(n)
    IN  IF 1 < i /\ i < Len(n) THEN SubSeq(n, 1, i - 1) ELSE n

\* PurePath.name and PurePath.parent of an absolute path
Name(p) == IF p = <<>> THEN <<>> ELSE Last(p)
Parent(p) == IF p = <<>> THEN <<>> ELSE Front(p)

\* Path.resolve() on a filesystem without symbolic links: "." is dropped and
\* ".." steps to the parent (the root is its own parent).
RECURSIVE ResolveOnto(_, _)
ResolveOnto(done, rest) ==
    IF rest = <<>> THEN done
    ELSE IF Head(rest) = <<DOT>> THEN ResolveOnto(done, Tail(rest))
    ELSE IF Head(rest) = <<DOT, DOT>> THEN ResolveOnto(Parent(done), Tail(rest))
    ELSE ResolveOnto(Append(done, Head(rest)), Tail(rest))

Resolve(p) == ResolveOnto(<<>>, p)

\* str(path) of an absolute path
RECURSIVE JoinParts(_)
JoinParts(p) ==
    IF p = <<>> THEN <<>> ELSE <<SEP>> \o Head(p) \o JoinParts(Tail(p))

Str(p) == IF p = <<>> THEN <<SEP>> ELSE JoinParts(p)

\* Path(string) of an absolute path string
RECURSIVE SplitOnto(_, _, _)
SplitOnto(parts, cur, s) ==
    IF s = <<>> THEN (IF cur = <<>> THEN parts ELSE Append(parts, cur))
    ELSE IF Head(s) = SEP
         THEN SplitOnto(IF cur = <<>> THEN parts ELSE Append(parts, cur),
                        <<>>, Tail(s))
    ELSE SplitOnto(parts, Append(cur, Head(s)), Tail(s))

PathOf(s) == SplitOnto(<<>>, <<>>, s)

WithSuffixAppended(p, suffix) == Append(Front(p), Name(p) \o suffix)

\* PurePath.with_suffix on a path with a non-empty name
WithSuffix(p, suffix) ==
    LET n == Name(p)
        old == Suffix(n)
    IN  Append(Front(p), SubSeq(n, 1, Len(n) - Len(old)) \o suffix)

-----------------------------------------------------------------------------
(* The filesystem: / holds the directory d and the regular file f; d holds *)
(* the regular files named in fs.                                          *)

IsDir(p) == p \in {<<>>, D}

Exists(p, files) ==
    \/ p \in {<<>>, D, <<FName>>}
    \/ Len(p) = 2 /\ p[1] = DName /\ p[2] \in files

\* os.listdir / os.scandir of a directory
Listdir(dir, files) ==
    IF dir = D THEN files
    ELSE IF dir = <<>> THEN {DName, FName}
    ELSE {}

\* A file written at path p
WriteFile(p, files) ==
    IF Len(p) = 2 /\ p[1] = DName THEN files \cup {p[2]} ELSE files

\* Path.glob("*." + ext): every entry whose name ends in "." ext (a leading
\* dot is not special to pathlib)
GlobMatch(n, ext) ==
    Len(n) >= 2 /\ n[Len(n)] = ext /\ n[Len(n) - 1] = DOT

Glob(dir, ext, files) ==
    {Append(dir, n) : n \in {m \in Listdir(dir, files) : GlobMatch(m, ext)}}

-----------------------------------------------------------------------------
(* _escape_r_string and the command it is used in *)

\* str.replace(old, new) for a one-character old
RECURSIVE Replace(_, _, _)
Replace(s, old, new) ==
    IF s = <<>> THEN <<>>
    ELSE (IF Head(s) = old THEN new ELSE <<Head(s)>>)
         \o Replace(Tail(s), old, new)

EscapeQuotesFirst(path) ==
    Replace(Replace(path, DQ, <<BS, DQ>>), BS, <<BS, BS>>)

_escape_r_string(path) ==
    Replace(Replace(path, BS, <<BS, BS>>), DQ, <<BS, DQ>>)

PurlHead == "knitr::purl(input = "
PurlMid == ", output = "
PurlTail == ", documentation = 0)"

\* KNITR_RMD_TO_R_CONVERSION_COMMAND.format(input_path=..., output_path=...)
FormatCommand(input_path, output_path) ==
    <<PurlHead, DQ>> \o input_path \o <<DQ, PurlMid, DQ>> \o output_path
        \o <<DQ, PurlTail>>

\* The R parser reading a double-quoted literal, from just after its opening
\* quote: a backslash takes the next character with it, an unescaped quote
\* closes the literal.  ok is FALSE when the text ends inside the literal or
\* a backslash is followed by something R has no escape for.
RECURSIVE RReadLiteral(_, _)
RReadLiteral(s, acc) ==
    IF s = <<>> THEN [ok |-> FALSE, value |-> acc, rest |-> <<>>]
    ELSE IF Head(s) = DQ THEN [ok |-> TRUE, value |-> acc, rest |-> Tail(s)]
    ELSE IF Head(s) = BS
         THEN IF Len(s) >= 2 /\ s[2] \in {BS, DQ}
              THEN RReadLiteral(Tail(Tail(s)), Append(acc, s[2]))
              ELSE [ok |-> FALSE, value |-> acc, rest |-> <<>>]
    ELSE RReadLiteral(Tail(s), Append(acc, Head(s)))

\* The R parser reading the whole generated command: the two arguments it
\* sees, or ok = FALSE when the text is not the one call.
RParseCommand(cmd) ==
    LET bad == [ok |-> FALSE, input |-> <<>>, output |-> <<>>]
    IN  IF Len(cmd) < 2 \/ cmd[1] # PurlHead \/ cmd[2] # DQ THEN bad
        ELSE LET a == RReadLiteral(SubSeq(cmd, 3, Len(cmd)), <<>>)
             IN  IF ~a.ok \/ Len(a.rest) < 2 \/ a.rest[1] # PurlMid
                       \/ a.rest[2] # DQ
                 THEN bad
                 ELSE LET b == RReadLiteral(SubSeq(a.rest, 3, Len(a.rest)), <<>>)
                      IN  IF ~b.ok \/ b.rest # <<PurlTail>> THEN bad
                          ELSE [ok |-> TRUE, input |-> a.value,
                                output |-> b.value]

-----------------------------------------------------------------------------
(* subprocess.run(..., check=True) and the two external tools *)

\* The exception subprocess.run(check=True) raises, by how the child ended:
\* the executable was not found, it exited non-zero, it exited zero.
RunError(status) ==
    CASE status = "not_found" -> "FileNotFoundError"
      [] status = "nonzero" -> "CalledProcessError"
      [] OTHER -> "none"

\* Extensions the script exporter may give its output (the notebook's kernel
\* decides).
ExporterExts == {"py", "Rmd"}

\* jupyter nbconvert --to script <input> --output <hint>: fails on an input
\* it cannot read; on a readable one it fails, or exits zero having written
\* <hint>.<ext> beside the input, or exits zero having written nothing.
Jupyter(input, hint, files, onPath) ==
    LET p == PathOf(input)
    IN  IF ~onPath THEN {[status |-> "not_found", files |-> files]}
        ELSE IF ~Exists(p, files) \/ IsDir(p)
        THEN {[status |-> "nonzero", files |-> files]}
        ELSE {[status |-> "nonzero", files |-> files],
              [status |-> "zero", files |-> files]}
             \cup {[status |-> "zero",
                    files |-> WriteFile(Append(Parent(p), hint \o <<DOT, e>>),
                                        files)] : e \in ExporterExts}

\* R -e <command>: fails on a command it cannot parse and on an input it
\* cannot read; otherwise it fails (knitr missing, malformed input), or exits
\* zero having written the output the command names, or exits zero having
\* written nothing.
RInterpreter(cmd, files, onPath) ==
    LET c == RParseCommand(cmd)
    IN  IF ~onPath THEN {[status |-> "not_found", files |-> files]}
        ELSE IF ~c.ok \/ ~Exists(PathOf(c.input), files)
                  \/ IsDir(PathOf(c.input))
        THEN {[status |-> "nonzero", files |-> files]}
        ELSE {[status |-> "nonzero", files |-> files],
              [status |-> "zero", files |-> files],
              [status |-> "zero",
               files |-> WriteFile(PathOf(c.output), files)]}

-----------------------------------------------------------------------------
(* convert_ipynb and convert_rmd: every way one call can end.  Each element *)
(* holds how the call ended, the path returned, the subprocess run it made *)
(* and the directory content it leaves.                                    *)

StemOnly(f, ipynb_path) == Stem(Name(f)) = Stem(Name(ipynb_path))

\* The test of the directory scan
IsConvertedScript(f, ipynb_path) ==
    Stem(Name(f)) = Stem(Name(ipynb_path)) /\ Suffix(Name(f)) # <<DOT, "ipynb">>

Ended(kind, err, path, run, files) ==
    [kind |-> kind, err |-> err, path |-> path, run |-> run, files |-> files]

\* iterdir() yields the entries in an order the filesystem chooses, so the
\* scan may return any entry that passes the test.
convert_ipynb(path, files, onPath) ==
    LET ipynb_path == Resolve(path)
        arg == Str(ipynb_path)
        hint == Stem(Name(ipynb_path))
        Run(t) == [tool |-> "jupyter", arg |-> arg, hint |-> hint,
                   status |-> t.status]
        Scan(t) ==
            LET dir == Parent(ipynb_path)
                found == {f \in {Append(dir, n) : n \in Listdir(dir, t.files)} :
                            IsConvertedScript(f, ipynb_path)}
            IN  IF found = {}
                THEN {Ended("raise", "FileNotFoundError", <<>>, Run(t), t.files)}
                ELSE {Ended("return", "none", f, Run(t), t.files) : f \in found}
    IN  UNION {IF t.status = "zero" THEN Scan(t)
               ELSE {Ended("raise", RunError(t.status), <<>>, Run(t), t.files)}
               : t \in Jupyter(arg, hint, files, onPath)}

convert_rmd(path, files, onPath) ==
    LET rmd_path == Resolve(path)
        output_r_path == WithSuffix(rmd_path, <<DOT, "r">>)
        r_conversion_command ==
            FormatCommand(_escape_r_string(Str(rmd_path)),
                          _escape_r_string(Str(output_r_path)))
        Run(t) == [tool |-> "R", arg |-> r_conversion_command, hint |-> <<>>,
                   status |-> t.status]
    IN  {IF t.status = "zero"
         THEN Ended("return", "none", output_r_path, Run(t), t.files)
         ELSE Ended("raise", RunError(t.status), <<>>, Run(t), t.files)
         : t \in RInterpreter(r_conversion_command, files, onPath)}

-----------------------------------------------------------------------------
(* State *)

NoCall == [fn |-> "none", path |-> <<>>, mode |-> "none"]
NotEnded == [kind |-> "pending", err |-> "none", path |-> <<>>]

\* Paths given to convert_ipynb and convert_rmd: every name /d may hold, two
\* that it never holds, and two spellings that resolve into /d.
FileInputs ==
    {<<DName, n>> : n \in NameUniverse \cup MissingNames}
    \cup {<<DName, <<DOT, DOT>>, DName, <<"a", DOT, "ipynb">>>>,
          <<<<DOT>>, DName, <<"a", DOT, "Rmd">>>>}

\* Paths given to convert_directory: /d in three spellings, the root, the
\* regular file /f, a path that does not exist, and an entry of /d.
DirInputs ==
    {D, <<DName, <<DOT>>>>, <<FName, <<DOT, DOT>>, DName>>, <<>>,
     <<FName>>, <<<<"m">>>>, <<DName, <<"a", DOT, "ipynb">>>>}

\* ConverterType
ConverterTypes == {"IPYNB", "RMD", "BOTH"}

Init ==
    /\ fs \in {S \in SUBSET NameUniverse : Cardinality(S) <= MaxFiles}
    /\ jupyterOnPath \in BOOLEAN
    /\ rOnPath \in BOOLEAN
    /\ pc = "idle"
    /\ call = NoCall
    /\ pending = {}
    /\ results = {}
    /\ outcome = NotEnded
    /\ subprocessRuns = <<>>
    /\ converterCalls = <<>>
    /\ escIn = <<>>
    /\ escOut = <<>>

\* One call of a single-file converter ending as e: what it leaves behind.
Converted(fn, path, e) ==
    /\ fs' = e.files
    /\ subprocessRuns' = Append(subprocessRuns, e.run)
    /\ converterCalls' = Append(converterCalls,
                                [fn |-> fn, path |-> path, kind |-> e.kind,
                                 err |-> e.err])

Raise(err) == outcome' = [kind |-> "raise", err |-> err, path |-> <<>>]

-----------------------------------------------------------------------------
(* The public operations *)

ConvertIpynbCall(ipynb_path) ==
    /\ pc = "idle"
    /\ \E e \in convert_ipynb(ipynb_path, fs, jupyterOnPath) :
          /\ Converted("convert_ipynb", ipynb_path, e)
          /\ outcome' = [kind |-> e.kind, err |-> e.err, path |-> e.path]
    /\ call' = [fn |-> "convert_ipynb", path |-> ipynb_path, mode |-> "none"]
    /\ pc' = "done"
    /\ UNCHANGED <<jupyterOnPath, rOnPath, pending, results, escIn, escOut>>

ConvertRmdCall(rmd_path) ==
    /\ pc = "idle"
    /\ \E e \in convert_rmd(rmd_path, fs, rOnPath) :
          /\ Converted("convert_rmd", rmd_path, e)
          /\ outcome' = [kind |-> e.kind, err |-> e.err, path |-> e.path]
    /\ call' = [fn |-> "convert_rmd", path |-> rmd_path, mode |-> "none"]
    /\ pc' = "done"
    /\ UNCHANGED <<jupyterOnPath, rOnPath, pending, results, escIn, escOut>>

IpynbSelected(converter_type) == converter_type \in {"IPYNB", "BOTH"}

AnySelected(converter_type) == converter_type \in {"IPYNB", "RMD", "BOTH"}

RmdSelected(converter_type) == converter_type \in {"RMD", "BOTH"}

\* results[key] = value, keyed by the converted path instead
DictSetByValue(dict, key, value) ==
    {kv \in dict : kv[1] # value} \cup {<<value, key>>}

\* results[key] = value
DictSet(dict, key, value) ==
    {kv \in dict : kv[1] # key} \cup {<<key, value>>}

Keys(dict) == {kv[1] : kv \in dict}

\* convert_directory returns results
ReturnResults ==
    /\ outcome' = [kind |-> "return", err |-> "none", path |-> <<>>]
    /\ pc' = "done"
    /\ pending' = {}

\* The *.Rmd loop starts (its glob lists the directory now), or is skipped
\* and the function returns.
StartRmdLoop(dir, converter_type) ==
    IF RmdSelected(converter_type)
    THEN /\ pending' = Glob(dir, "Rmd", fs)
         /\ pc' = "rmd_loop"
         /\ outcome' = outcome
    ELSE ReturnResults

\* The function body after the directory check, up to the first loop.
StartLoops(dir, converter_type) ==
    /\ results' = {}
    /\ IF IpynbSelected(converter_type)
       THEN /\ pending' = Glob(dir, "ipynb", fs)
            /\ pc' = "ipynb_loop"
            /\ outcome' = outcome
       ELSE StartRmdLoop(dir, converter_type)

ConvertDirectoryEnterUnchecked(directory, converter_type) ==
    /\ pc = "idle"
    /\ call' = [fn |-> "convert_directory", path |-> directory,
                mode |-> converter_type]
    /\ StartLoops(Resolve(directory), converter_type)
    /\ UNCHANGED <<fs, jupyterOnPath, rOnPath, subprocessRuns, converterCalls,
                   escIn, escOut>>

ConvertDirectoryEnter(directory, converter_type) ==
    /\ pc = "idle"
    /\ call' = [fn |-> "convert_directory", path |-> directory,
                mode |-> converter_type]
    /\ IF ~IsDir(Resolve(directory))
       THEN /\ Raise("NotADirectoryError")
            /\ pc' = "done"
            /\ UNCHANGED <<pending, results>>
       ELSE StartLoops(Resolve(directory), converter_type)
    /\ UNCHANGED <<fs, jupyterOnPath, rOnPath, subprocessRuns, converterCalls,
                   escIn, escOut>>

\* One pass of a loop body that skips a file whose conversion failed
IterateSkippingFailures(loop, fn, onPath) ==
    /\ pc = loop
    /\ \E f \in pending :
          /\ pending' = pending \ {f}
          /\ \E e \in (IF fn = "convert_ipynb" THEN convert_ipynb(f, fs, onPath)
                       ELSE convert_rmd(f, fs, onPath)) :
                /\ Converted(fn, f, e)
                /\ results' = IF e.kind = "raise" THEN results
                              ELSE DictSet(results, f, e.path)
                /\ UNCHANGED <<pc, outcome>>
    /\ UNCHANGED <<jupyterOnPath, rOnPath, call, escIn, escOut>>

\* One pass of a loop body: the glob yields f, the converter is called on it,
\* and its result is stored or its exception leaves convert_directory.
Iterate(loop, fn, onPath) ==
    /\ pc = loop
    /\ \E f \in pending :
          /\ pending' = pending \ {f}
          /\ \E e \in (IF fn = "convert_ipynb" THEN convert_ipynb(f, fs, onPath)
                       ELSE convert_rmd(f, fs, onPath)) :
                /\ Converted(fn, f, e)
                /\ IF e.kind = "raise"
                   THEN /\ Raise(e.err)
                        /\ pc' = "done"
                        /\ results' = results
                   ELSE /\ results' = DictSet(results, f, e.path)
                        /\ UNCHANGED <<pc, outcome>>
    /\ UNCHANGED <<jupyterOnPath, rOnPath, call, escIn, escOut>>

IpynbIter == Iterate("ipynb_loop", "convert_ipynb", jupyterOnPath)

RmdIter == Iterate("rmd_loop", "convert_rmd", rOnPath)

\* The *.ipynb glob is exhausted.
IpynbLoopExit ==
    /\ pc = "ipynb_loop"
    /\ pending = {}
    /\ StartRmdLoop(Resolve(call.path), call.mode)
    /\ UNCHANGED <<fs, jupyterOnPath, rOnPath, call, results, subprocessRuns,
                   converterCalls, escIn, escOut>>

\* The *.Rmd glob is exhausted.
RmdLoopExit ==
    /\ pc = "rmd_loop"
    /\ pending = {}
    /\ ReturnResults
    /\ UNCHANGED <<fs, jupyterOnPath, rOnPath, call, results, subprocessRuns,
                   converterCalls, escIn, escOut>>

Next ==
    \/ \E p \in FileInputs : ConvertIpynbCall(p)
    \/ \E p \in FileInputs : ConvertRmdCall(p)
    \/ \E p \in DirInputs, t \in ConverterTypes : ConvertDirectoryEnter(p, t)
    \/ IpynbIter
    \/ RmdIter
    \/ IpynbLoopExit
    \/ RmdLoopExit

Spec == Init /\ [][Next]_vars

-----------------------------------------------------------------------------
(* _escape_r_string on its own, over every short string *)

Alphabet == {BS, DQ, "a"}

Strings == UNION {[1..k -> Alphabet] : k \in 0..MaxLen}

InitEscape ==
    /\ escIn \in Strings
    /\ escOut = <<>>
    /\ pc = "escape"
    /\ fs = {}
    /\ jupyterOnPath = FALSE
    /\ rOnPath = FALSE
    /\ call = NoCall
    /\ pending = {}
    /\ results = {}
    /\ outcome = NotEnded
    /\ subprocessRuns = <<>>
    /\ converterCalls = <<>>

EscapeCall ==
    /\ pc = "escape"
    /\ escOut' = _escape_r_string(escIn)
    /\ pc' = "escaped"
    /\ UNCHANGED <<fs, jupyterOnPath, rOnPath, call, pending, results, outcome,
                   subprocessRuns, converterCalls, escIn>>

NextEscape == EscapeCall

SpecEscape == InitEscape /\ [][NextEscape]_vars

-----------------------------------------------------------------------------
(* Vocabulary of the properties *)

IPYNB == <<DOT, "ipynb">>
RMD == <<DOT, "Rmd">>

EndsWith(n, tail) ==
    Len(n) >= Len(tail) /\ SubSeq(n, Len(n) - Len(tail) + 1, Len(n)) = tail

InDirectoryCall == call.fn = "convert_directory"

\* The directory convert_directory works on, and its immediate children
Directory == Resolve(call.path)
Children == {Append(Directory, n) : n \in Listdir(Directory, fs)}

\* How many times converter fn was called on path p
Times(fn, p) ==
    Cardinality({i \in DOMAIN converterCalls :
                    converterCalls[i].fn = fn /\ converterCalls[i].path = p})

Called(fn) == \E i \in DOMAIN converterCalls : converterCalls[i].fn = fn
Ran(tool) == \E i \in DOMAIN subprocessRuns : subprocessRuns[i].tool = tool

Returned == pc = "done" /\ outcome.kind = "return"
Raised(err) == pc = "done" /\ outcome.kind = "raise" /\ outcome.err = err

\* The children the mode selects
SelectedChildren ==
    {c \in Children :
        \/ call.mode \in {"IPYNB", "BOTH"} /\ EndsWith(Name(c), IPYNB)
        \/ call.mode \in {"RMD", "BOTH"} /\ EndsWith(Name(c), RMD)}

\* Code point of the first character of each element names are made of
Rank(c) ==
    CASE c = DQ -> 34 [] c = DOT -> 46 [] c = SEP -> 47 [] c = "Rmd" -> 82
      [] c = BS -> 92 [] c = "a" -> 97 [] c = "b" -> 98 [] c = "d" -> 100
      [] c = "f" -> 102 [] c = "ipynb" -> 105 [] c = "m" -> 109
      [] c = "py" -> 112 [] c = "r" -> 114

\* x sorts strictly before y as a string
RECURSIVE LexLess(_, _)
LexLess(x, y) ==
    IF x = <<>> THEN y # <<>>
    ELSE IF y = <<>> THEN FALSE
    ELSE IF Head(x) = Head(y) THEN LexLess(Tail(x), Tail(y))
    ELSE Rank(Head(x)) < Rank(Head(y))

\* The entries beside the notebook that the scan of convert_ipynb accepts
ScriptsBeside(ipynb_path) ==
    {n \in Listdir(Parent(ipynb_path), fs) :
        Stem(n) = Stem(Name(ipynb_path)) /\ Suffix(n) # IPYNB}

\* Undo the escaping, left to right: \\ gives \ and \" gives "
RECURSIVE Unescape(_)
Unescape(s) ==
    IF s = <<>> THEN <<>>
    ELSE IF Head(s) = BS /\ Len(s) >= 2 /\ s[2] \in {BS, DQ}
         THEN <<s[2]>> \o Unescape(Tail(Tail(s)))
    ELSE <<Head(s)>> \o Unescape(Tail(s))

\* The number of backslashes that end just before position i of s
RECURSIVE BackslashRun(_, _)
BackslashRun(s, i) ==
    IF i > 1 /\ s[i - 1] = BS THEN 1 + BackslashRun(s, i - 1) ELSE 0

\* Position i of s holds a double quote that closes a string literal
BareQuote(s, i) == s[i] = DQ /\ BackslashRun(s, i) % 2 = 0

-----------------------------------------------------------------------------
(* Properties *)

\* C1: convert_directory on a path that is not an existing directory (a
\* regular file or a missing path), in every mode, ends with
\* NotADirectoryError, and by then no subprocess was run and no converter
\* was called.
DirectoryCheckedFirst ==
    (InDirectoryCall /\ Directory \notin {<<>>, D}) =>
        /\ Raised("NotADirectoryError")
        /\ subprocessRuns = <<>>
        /\ converterCalls = <<>>

\* C1 witness: convert_directory was called on a notebook that exists in /d.
DirectoryCheckedFirstWitness ==
    /\ InDirectoryCall
    /\ call.path = <<DName, <<"a", DOT, "ipynb">>>>
    /\ <<"a", DOT, "ipynb">> \in fs
    /\ call.mode = "BOTH"
    /\ jupyterOnPath
    /\ pc = "done"

\* C2: in mode IPYNB convert_rmd is never called and in mode RMD
\* convert_ipynb is never called; when a call in mode BOTH returns,
\* convert_ipynb was called exactly once on every child matching *.ipynb,
\* convert_rmd exactly once on every child matching *.Rmd, and no converter
\* on anything else.
ModeSelectsConverters ==
    InDirectoryCall =>
        /\ call.mode = "IPYNB" => ~Called("convert_rmd") /\ ~Ran("R")
        /\ call.mode = "RMD" => ~Called("convert_ipynb") /\ ~Ran("jupyter")
        /\ (call.mode = "BOTH" /\ Returned) =>
              /\ \A c \in Children :
                    /\ Times("convert_ipynb", c)
                          = (IF EndsWith(Name(c), IPYNB) THEN 1 ELSE 0)
                    /\ Times("convert_rmd", c)
                          = (IF EndsWith(Name(c), RMD) THEN 1 ELSE 0)
              /\ \A i \in DOMAIN converterCalls :
                    converterCalls[i].path \in Children

\* C2 witness: a call in mode BOTH returned after converting two notebooks
\* and an R Markdown file, in a directory that also holds an unrelated file.
ModeSelectsConvertersWitness ==
    /\ InDirectoryCall /\ call.mode = "BOTH" /\ Returned
    /\ Cardinality({c \in Children : EndsWith(Name(c), IPYNB)}) = 2
    /\ Called("convert_rmd")
    /\ \E c \in Children : c \notin SelectedChildren

\* C3: in convert_directory, once a converter call has failed it is the last
\* converter call and the last subprocess run, the call has ended raising
\* that call's error, the failed file was tried once, and a failed notebook
\* leaves convert_rmd uncalled.
FailFast ==
    InDirectoryCall =>
        \A i \in DOMAIN converterCalls :
            converterCalls[i].kind = "raise" =>
                /\ i = Len(converterCalls)
                /\ Len(subprocessRuns) = i
                /\ Raised(converterCalls[i].err)
                /\ Times(converterCalls[i].fn, converterCalls[i].path) = 1
                /\ converterCalls[i].fn = "convert_ipynb"
                      => ~Called("convert_rmd") /\ ~Ran("R")

\* C3 witness: in mode BOTH the second notebook failed while a third
\* notebook and an R Markdown file were still waiting.
FailFastWitness ==
    /\ InDirectoryCall /\ call.mode = "BOTH"
    /\ Len(converterCalls) = 2
    /\ converterCalls[1].kind = "return"
    /\ converterCalls[2].kind = "raise"
    /\ pending # {}
    /\ \E c \in Children : EndsWith(Name(c), RMD)
    /\ results # {}

ScanFindsScript ==
    (call.fn = "convert_ipynb" /\ pc = "done"
        /\ Last(subprocessRuns).status = "zero") =>
        LET ipynb_path == Resolve(call.path)
        IN  /\ outcome.kind = "return" =>
                  /\ Parent(outcome.path) = Parent(ipynb_path)
                  /\ Name(outcome.path) \in ScriptsBeside(ipynb_path)
            /\ Raised("FileNotFoundError") <=> ScriptsBeside(ipynb_path) = {}
            /\ outcome.kind = "raise" => outcome.err = "FileNotFoundError"

\* C5 witness: convert_ipynb returned a.py while /d also held a.ipynb and an
\* R Markdown file of another stem.
ScanFindsScriptWitness ==
    /\ call.fn = "convert_ipynb" /\ Returned
    /\ call.path = <<DName, <<"a", DOT, "ipynb">>>>
    /\ outcome.path = <<DName, <<"a", DOT, "py">>>>
    /\ {<<"a", DOT, "ipynb">>, <<"b", BS, DQ, DOT, "Rmd">>} \subseteq fs

\* C6: whenever the R subprocess exited zero, convert_rmd returned the path
\* in the resolved input's directory named <stem of the input>.r, whatever
\* the tool wrote and whatever the directory holds.
RmdOutputIsDeterministic ==
    (call.fn = "convert_rmd" /\ pc = "done"
        /\ Last(subprocessRuns).status = "zero") =>
        /\ outcome.kind = "return"
        /\ Parent(outcome.path) = Parent(Resolve(call.path))
        /\ Name(outcome.path)
              = Stem(Name(Resolve(call.path))) \o <<DOT, "r">>

\* C6 witness: convert_rmd returned a path at which no file exists.
RmdOutputIsDeterministicWitness ==
    /\ call.fn = "convert_rmd" /\ Returned
    /\ EndsWith(Name(Resolve(call.path)), RMD)
    /\ ~Exists(outcome.path, fs)

\* C7: for an input path that does not exist, convert_ipynb and convert_rmd
\* each run their subprocess and end with CalledProcessError.
MissingInputIsInvocationError ==
    (call.fn \in {"convert_ipynb", "convert_rmd"} /\ pc = "done"
        /\ Name(Resolve(call.path)) \in MissingNames) =>
        /\ Len(subprocessRuns) = 1
        /\ Raised("CalledProcessError")

\* C8: every failure to run the external tool, the tool missing from the
\* execution path included, surfaces as CalledProcessError, and
\* FileNotFoundError is raised only by convert_ipynb after its tool exited
\* zero.
FailuresAreTyped ==
    \A i \in DOMAIN converterCalls :
        /\ subprocessRuns[i].status # "zero"
              => converterCalls[i].err = "CalledProcessError"
        /\ converterCalls[i].err = "FileNotFoundError"
              => /\ converterCalls[i].fn = "convert_ipynb"
                 /\ subprocessRuns[i].status = "zero"

\* C9: unescaping the result of _escape_r_string gives back the argument,
\* the result holds no double quote after an even run of backslashes, and R
\* reads the literals of the generated command as the arguments given.
EscapeRoundTrip ==
    pc = "escaped" =>
        /\ Unescape(escOut) = escIn
        /\ \A i \in DOMAIN escOut : ~BareQuote(escOut, i)
        /\ RParseCommand(FormatCommand(escOut, escOut))
              = [ok |-> TRUE, input |-> escIn, output |-> escIn]

\* C9 witness: a string with a backslash right before a double quote was
\* escaped.
EscapeRoundTripWitness ==
    /\ pc = "escaped"
    /\ \E i \in 1..(Len(escIn) - 1) : escIn[i] = BS /\ escIn[i + 1] = DQ

\* C10: when several entries have the notebook's stem and an extension other
\* than .ipynb, convert_ipynb returns the lexicographically first of them.
ScanReturnsLexFirst ==
    (call.fn = "convert_ipynb" /\ Returned) =>
        \A n \in ScriptsBeside(Resolve(call.path)) :
            ~LexLess(n, Name(outcome.path))

=============================================================================
